---------------------------- MODULE Spec2Model ----------------------------
(***************************************************************************)
(* A model of the ingestion-and-evaluation pipeline documented in          *)
(* src/unnamed/part_000: text cleaning (clean_text), chunking              *)
(* (text_splitter), retrieval (retrieve_context) and fact-based scoring    *)
(* (calculate_accuracy).                                                   *)
(*                                                                         *)
(* Texts are sequences of one-character strings.  Each regular-expression  *)
(* pass of clean_text is an operator that scans the text left to right the *)
(* way re.sub does: leftmost match first, greedy, matches not overlapping. *)
(* Where the source calls a library (re, str, RecursiveCharacterText-      *)
(* Splitter, the vector store), the operator follows what that call does.  *)
(*                                                                         *)
(* The last two sections model the chat page of src/frontend: the API      *)
(* service functions and the hook useChatSession.                          *)
(***************************************************************************)
EXTENDS Integers, Sequences, FiniteSets, TLC

VARIABLES
    npc,          \* normalizer: "extract" | "cleaned" | "recleaned"
    raw,          \* the text extracted from the PDF so far
    cleaned,      \* clean_text(raw)
    recleaned,    \* clean_text(cleaned)
    cpc,          \* chunker: "idle" | "configured" | "loaded" | "split"
    doc_text,     \* the cleaned text handed to text_splitter
    chunk_size,   \* text_splitter's chunk_size
    chunk_overlap,\* text_splitter's chunk_overlap
    chunks,       \* the chunks, each the span <<lo, hi>> of doc_text[lo:hi]
    spc,          \* scorer: "idle" | "loaded" | "answered" | "scored"
    ground_truth, \* the fact table's answer to the question
    model_answer, \* the model's answer to the question
    accuracy,     \* what calculate_accuracy(model_answer, ground_truth) gives
    rpc,          \* retriever: "ingest" | "retrieved"
    index,        \* the vector store: the embeddings of the records, in
                  \* the order they were stored (record i is index[i])
    question,     \* the embedding of the question
    top_k,        \* retrieve_context's k
    retrieved,    \* docs: the records similarity_search returned, in order
    context,      \* what retrieve_context returns
    dpc,          \* dispatcher: "idle" | "calling" | "backoff" | "done"
    model_id,     \* the model the prompt is dispatched to
    retry_ceiling, \* the configured retry ceiling, fixed for one generate
    calls,        \* provider calls issued for this generate
    outcomes,     \* what each provider call came back with, in order
    generated,    \* what generate gave its caller
    epc,          \* evaluation run: "idle" | "running" | "done"
    num_questions,\* how many entries the fact table of the run holds
    cursor,       \* the (question, model) pair the run is at, <<row, column>>
    results,      \* the responses recorded so far, in order
    aborted,      \* the providers that failed with an authentication error
    xpc,          \* extractor: "closed" | "reading" | "returned"
    reader_pages, \* reader.pages: what extract_text() gives for each page
    page_at,      \* the page the loop of extract_text_from_pdf is at
    extracted,    \* text, the local of extract_text_from_pdf
    hpc,          \* sendMessage: "idle" | "awaiting" (at await sendChatMessage)
    lpc,          \* createNewSession / loadSessionHistory / removeSession:
                  \* "idle" | "creating" | "loading" | "deleting" (at
                  \* their await)
    load_id,      \* the id loadSessionHistory was called with
    sessionId,    \* useChatSession state
    sessionIdRef, \* sessionIdRef.current
    history,      \* useChatSession state: the messages shown
    historyRef,   \* historyRef.current
    isSending,    \* useChatSession state
    isLoading,    \* useChatSession state
    error,        \* useChatSession state
    sent,         \* userMessage of the sendMessage that is awaiting
    next_id,      \* stands for crypto.randomUUID(): the next unused id
    in_flight,    \* POST /chat requests issued and not yet answered
    sent_to,      \* currentSessionId of the sendMessage that is awaiting
    isSendingSeen,\* isSending as of the latest render, which is what the
                  \* closures of sendMessage and ChatInput hold
    last_call,    \* what the latest call of sendMessage did: "none" |
                  \* "sent" | "refused_blank" | "refused_sending"
    load_failed,  \* whether the fetch of the latest history load failed
    rm_id,        \* the id removeSession was called with
    rm_current,   \* id === sessionId in the closure of that removeSession
    removed,      \* removeSession: "none" | "pending" | "true" | "false"
                  \* (what it returned)
    sessions_made,\* sessions the server has created for this page
    api_call,     \* services/api: the function that was called last
    api_fetch,    \* what its fetch came to
    api_return    \* what it gave its caller

nvars == <<npc, raw, cleaned, recleaned>>
cvars == <<cpc, doc_text, chunk_size, chunk_overlap, chunks>>
svars == <<spc, ground_truth, model_answer, accuracy>>
rvars == <<rpc, index, question, top_k, retrieved, context>>
dvars == <<dpc, model_id, retry_ceiling, calls, outcomes, generated>>
evars == <<epc, num_questions, cursor, results, aborted>>
xvars == <<xpc, reader_pages, page_at, extracted>>
hvars == <<hpc, lpc, load_id, sessionId, sessionIdRef, history, historyRef,
           isSending, isLoading, error, sent, next_id, in_flight,
           sent_to, isSendingSeen, last_call, load_failed, rm_id, rm_current,
           removed, sessions_made>>
avars == <<api_call, api_fetch, api_return>>
vars == <<nvars, cvars, svars, rvars, dvars, evars, xvars, hvars, avars>>

\* what the actions of one component leave alone
notNorm == <<cvars, svars, rvars, dvars, evars, xvars, hvars, avars>>
notChunk == <<nvars, svars, rvars, dvars, evars, xvars, hvars, avars>>
notScore == <<nvars, cvars, rvars, dvars, evars, xvars, hvars, avars>>
notRetrieve == <<nvars, cvars, svars, dvars, evars, xvars, hvars, avars>>
notDispatch == <<nvars, cvars, svars, rvars, evars, xvars, hvars, avars>>
notRun == <<nvars, cvars, svars, rvars, xvars, hvars, avars>>
notExtract == <<nvars, cvars, svars, rvars, dvars, evars, hvars, avars>>
notChat == <<nvars, cvars, svars, rvars, dvars, evars, xvars, avars>>
notApi == <<nvars, cvars, svars, rvars, dvars, evars, xvars, hvars>>

-----------------------------------------------------------------------------
(* Bounds *)

MaxRawLen == 5

MaxTextLen == 6

MaxChunkSize == 4

MaxTruthLen == 3

MaxAnswerLen == 2

MaxIndexSize == 3

MaxK == 3

MaxQuestions == 1

MaxModels == 3

\* pages of a PDF, and characters of the text of one page
MaxPages == 3

MaxPageLen == 2

\* message ids handed out in one session of the chat page
MaxIds == 2

\* {user, bot} items in the history GET /chat/history answers with
MaxItems == 3

\* sessions created while the chat page is open
MaxNewSessions == 1

\* a corpus of 50 chunks
CorpusSize == 50

\* retrieve_context's default k
DefaultK == 5

\* The documented configuration, chunk_size=1000 and chunk_overlap=200, and a
\* 2500-character text are modelled in units of Scale characters.
Scale == 100

ScenarioLen == 2500

CHUNK_SIZE == 1000

CHUNK_OVERLAP == 200

-----------------------------------------------------------------------------
(* Characters.  "a" stands for any letter of the vietnamese_lower class of  *)
(* clean_text, "A" for any other non-whitespace character, "\r" for any     *)
(* whitespace character that \s and str.strip() match but [ \t\n] does not. *)

RawChars == {" ", "\t", "\n", "\r", "a", "A"}

Whitespace == {" ", "\t", "\n", "\r"}

vietnamese_lower == {"a"}

Min(S) == CHOOSE x \in S : \A y \in S : x <= y

Max(S) == CHOOSE x \in S : \A y \in S : x >= y

\* The first index j >= i of s whose character is not in C (Len(s)+1 if none).
RunEnd(s, i, C) ==
    Min({j \in i..(Len(s) + 1) : j = Len(s) + 1 \/ s[j] \notin C})

-----------------------------------------------------------------------------
(* clean_text, pass by pass *)

\* re.sub(r'[ \t]+', ' ', text)
RECURSIVE SubHorizontalRuns(_, _)
SubHorizontalRuns(s, i) ==
    IF i > Len(s) THEN <<>>
    ELSE IF s[i] \in {" ", "\t"}
         THEN <<" ">> \o SubHorizontalRuns(s, RunEnd(s, i, {" ", "\t"}))
         ELSE <<s[i]>> \o SubHorizontalRuns(s, i + 1)

\* re.sub(r'\n\s*\n', '\n\n', text): from a line break, \s* is greedy, so the
\* match runs to the last line break of the whitespace run that follows.
RECURSIVE SubBlankLines(_, _)
SubBlankLines(s, i) ==
    IF i > Len(s) THEN <<>>
    ELSE LET e == RunEnd(s, i + 1, Whitespace)
             J == {j \in (i + 1)..(e - 1) : s[j] = "\n"}
         IN  IF s[i] = "\n" /\ J # {}
             THEN <<"\n", "\n">> \o SubBlankLines(s, Max(J) + 1)
             ELSE <<s[i]>> \o SubBlankLines(s, i + 1)

\* The mutant of SubSpacesAroundBreaks: the spaces after the break are left,
\* r' *\n'.
RECURSIVE SubSpacesBeforeBreaks(_, _)
SubSpacesBeforeBreaks(s, i) ==
    IF i > Len(s) THEN <<>>
    ELSE LET e == RunEnd(s, i, {" "})
         IN  IF e <= Len(s) /\ s[e] = "\n"
             THEN <<"\n">> \o SubSpacesBeforeBreaks(s, e + 1)
             ELSE <<s[i]>> \o SubSpacesBeforeBreaks(s, i + 1)

\* re.sub(r' *\n *', '\n', text)
RECURSIVE SubSpacesAroundBreaks(_, _)
SubSpacesAroundBreaks(s, i) ==
    IF i > Len(s) THEN <<>>
    ELSE LET e == RunEnd(s, i, {" "})
         IN  IF e <= Len(s) /\ s[e] = "\n"
             THEN <<"\n">> \o SubSpacesAroundBreaks(s, RunEnd(s, e + 1, {" "}))
             ELSE <<s[i]>> \o SubSpacesAroundBreaks(s, i + 1)

\* re.sub(f'([{vietnamese_lower}])\n([{vietnamese_lower}])', r'\1 \2', text):
\* a match consumes both letters, so the second letter starts no new match.
RECURSIVE SubBrokenWords(_, _)
SubBrokenWords(s, i) ==
    IF i > Len(s) THEN <<>>
    ELSE IF /\ i + 2 <= Len(s)
            /\ s[i] \in vietnamese_lower
            /\ s[i + 1] = "\n"
            /\ s[i + 2] \in vietnamese_lower
         THEN <<s[i], " ", s[i + 2]>> \o SubBrokenWords(s, i + 3)
         ELSE <<s[i]>> \o SubBrokenWords(s, i + 1)

\* The mutant of SubSingleBreaks: the look-behind is missing, r'\n(?!\n)'.
SubSingleBreaksNoLookbehind(s) ==
    [i \in 1..Len(s) |->
        IF s[i] = "\n" /\ (i = Len(s) \/ s[i + 1] # "\n") THEN " " ELSE s[i]]

\* re.sub(r'(?<!\n)\n(?!\n)', ' ', text): the look-arounds consume nothing.
SubSingleBreaks(s) ==
    [i \in 1..Len(s) |->
        IF /\ s[i] = "\n"
           /\ (i = 1 \/ s[i - 1] # "\n")
           /\ (i = Len(s) \/ s[i + 1] # "\n")
        THEN " " ELSE s[i]]

\* re.sub(r' +', ' ', text)
RECURSIVE SubSpaceRuns(_, _)
SubSpaceRuns(s, i) ==
    IF i > Len(s) THEN <<>>
    ELSE IF s[i] = " "
         THEN <<" ">> \o SubSpaceRuns(s, RunEnd(s, i, {" "}))
         ELSE <<s[i]>> \o SubSpaceRuns(s, i + 1)

\* str.strip()
Strip(s) ==
    LET a == RunEnd(s, 1, Whitespace)
    IN  IF a > Len(s) THEN <<>>
        ELSE SubSeq(s, a, Max({j \in 1..Len(s) : s[j] \notin Whitespace}))

clean_text(text) ==
    LET t1 == SubHorizontalRuns(text, 1)
        t2 == SubBlankLines(t1, 1)
        t3 == SubSpacesAroundBreaks(t2, 1)
        t4 == SubBrokenWords(t3, 1)
        t5 == SubSingleBreaks(t4)
        t6 == SubSpaceRuns(t5, 1)
    IN  Strip(t6)

-----------------------------------------------------------------------------
(* The normalizer as a state machine: the extractor appends characters to   *)
(* the raw text, clean_text is applied to it, and applied once more to its  *)
(* own output.                                                              *)

NormIdle ==
    /\ npc = "extract"
    /\ raw = <<>>
    /\ cleaned = <<>>
    /\ recleaned = <<>>

ChunkIdle ==
    /\ cpc = "idle"
    /\ doc_text = <<>>
    /\ chunk_size = 0
    /\ chunk_overlap = 0
    /\ chunks = <<>>

ScoreIdle ==
    /\ spc = "idle"
    /\ ground_truth = <<>>
    /\ model_answer = <<>>
    /\ accuracy = [kind |-> "none"]

RetrieveIdle ==
    /\ rpc = "ingest"
    /\ index = <<>>
    /\ question = <<0, 0>>
    /\ top_k = 0
    /\ retrieved = <<>>
    /\ context = <<>>

DispatchIdle ==
    /\ dpc = "idle"
    /\ model_id = ""
    /\ retry_ceiling = 0
    /\ calls = 0
    /\ outcomes = <<>>
    /\ generated = [kind |-> "none"]

RunIdle ==
    /\ epc = "idle"
    /\ num_questions = 0
    /\ cursor = <<1, 1>>
    /\ results = <<>>
    /\ aborted = {}

ExtractIdle ==
    /\ xpc = "closed"
    /\ reader_pages = <<>>
    /\ page_at = 1
    /\ extracted = <<>>

null == "null"

\* no userMessage: no sendMessage is awaiting
NoMessage == [id |-> 0, origin |-> "human", message |-> ""]

\* useChatSession's useState and useRef initial values, with a stored
\* session id
ChatIdle ==
    /\ hpc = "idle"
    /\ lpc = "idle"
    /\ load_id = null
    /\ sessionId = "s1"
    /\ sessionIdRef = "s1"
    /\ history = <<>>
    /\ historyRef = <<>>
    /\ isSending = FALSE
    /\ isLoading = FALSE
    /\ error = null
    /\ sent = NoMessage
    /\ next_id = 1
    /\ in_flight = 0
    /\ sent_to = null
    /\ isSendingSeen = FALSE
    /\ last_call = "none"
    /\ load_failed = FALSE
    /\ rm_id = null
    /\ rm_current = FALSE
    /\ removed = "none"
    /\ sessions_made = 0

ApiIdle ==
    /\ api_call = "none"
    /\ api_fetch = "none"
    /\ api_return = "none"

\* every component starts idle; a specification runs one component
Init ==
    /\ NormIdle /\ ChunkIdle /\ ScoreIdle /\ RetrieveIdle /\ DispatchIdle
    /\ RunIdle /\ ExtractIdle /\ ChatIdle /\ ApiIdle

\* extract_text_from_pdf appends text to the raw text
ExtractChar ==
    /\ npc = "extract"
    /\ Len(raw) < MaxRawLen
    /\ \E c \in RawChars : raw' = Append(raw, c)
    /\ UNCHANGED <<npc, cleaned, recleaned>>
    /\ UNCHANGED notNorm

CleanText ==
    /\ npc = "extract"
    /\ cleaned' = clean_text(raw)
    /\ npc' = "cleaned"
    /\ UNCHANGED <<raw, recleaned>>
    /\ UNCHANGED notNorm

CleanAgain ==
    /\ npc = "cleaned"
    /\ recleaned' = clean_text(cleaned)
    /\ npc' = "recleaned"
    /\ UNCHANGED <<raw, cleaned>>
    /\ UNCHANGED notNorm

NormNext == ExtractChar \/ CleanText \/ CleanAgain

SpecNormalize == Init /\ [][NormNext]_vars

-----------------------------------------------------------------------------
(* C1: clean_text is idempotent: cleaning an already cleaned text gives the *)
(* same text, clean_text(clean_text(x)) = clean_text(x), for every raw x.   *)
C1_Idempotent == npc = "recleaned" => recleaned = cleaned

\* A raw text that cleaning changes into a text with a paragraph break has
\* been cleaned twice.
C1_Witness ==
    /\ npc = "recleaned"
    /\ cleaned # raw
    /\ Len(cleaned) >= 4
    /\ \E i \in 1..Len(cleaned) : cleaned[i] = "\n"

(* C15: in the output of clean_text every line break is one of exactly two  *)
(* in a row (no single line break, no run of three or more); there are no   *)
(* two spaces in a row, no tab, no space next to a line break, and no       *)
(* whitespace at the start or at the end.                                   *)
C15_CleanedShape ==
    npc # "extract" =>
        /\ \A i \in 1..Len(cleaned) :
              /\ cleaned[i] # "\t"
              /\ cleaned[i] = "\n" =>
                    LET lo == Max({j \in 0..(i - 1) : j = 0 \/ cleaned[j] # "\n"})
                        hi == RunEnd(cleaned, i, {"\n"})
                    IN  hi - lo - 1 = 2
              /\ (i < Len(cleaned) /\ cleaned[i] = " ") =>
                    cleaned[i + 1] \notin {" ", "\n"}
              /\ (i < Len(cleaned) /\ cleaned[i] = "\n") => cleaned[i + 1] # " "
        /\ cleaned # <<>> =>
              /\ cleaned[1] \notin Whitespace
              /\ cleaned[Len(cleaned)] \notin Whitespace

\* a raw text with a tab between two line breaks has been cleaned into two
\* paragraphs
C15_Witness ==
    /\ npc = "cleaned"
    /\ \E i \in 1..(Len(raw) - 2) :
          raw[i] = "\n" /\ raw[i + 1] = "\t" /\ raw[i + 2] = "\n"
    /\ Len(cleaned) = 4
    /\ cleaned[2] = "\n"
    /\ cleaned[3] = "\n"

-----------------------------------------------------------------------------
(* text_splitter = RecursiveCharacterTextSplitter(chunk_size, chunk_overlap, *)
(* length_function=len, separators=["\n\n", "\n", ". ", " ", ""]).           *)
(* split_text works on pieces of the text; the model keeps each piece as the *)
(* span <<lo, hi>> of the slice text[lo:hi] (offsets from 0, hi excluded),   *)
(* so that a chunk's place in the text is known.  keep_separator and         *)
(* strip_whitespace are left at the class defaults (True), so a separator    *)
(* stays at the start of the piece that follows it, pieces are joined with   *)
(* nothing between them, and every chunk is stripped.                        *)

separators == << <<"\n", "\n">>, <<"\n">>, <<".", " ">>, <<" ">>, <<>> >>

ChunkChars == {"a", ".", " ", "\n"}

SpanLen(sp) == sp[2] - sp[1]

\* text[lo:hi]
Slice(t, sp) == SubSeq(t, sp[1] + 1, sp[2])

\* whether sep occurs in t at offset i, ending by hi
MatchAt(t, i, hi, sep) ==
    /\ i + Len(sep) <= hi
    /\ \A j \in 1..Len(sep) : t[i + j] = sep[j]

\* re.search / re.split: the offsets in t[i:hi] where sep occurs, leftmost
\* first, the occurrences not overlapping
RECURSIVE Occurrences(_, _, _, _)
Occurrences(t, i, hi, sep) ==
    IF i + Len(sep) > hi THEN <<>>
    ELSE IF MatchAt(t, i, hi, sep)
         THEN <<i>> \o Occurrences(t, i + Len(sep), hi, sep)
         ELSE Occurrences(t, i + 1, hi, sep)

\* _split_text_with_regex(text, separator, keep_separator=True): the pieces
\* between the separators, each separator at the start of the piece after it,
\* the empty pieces dropped; with the empty separator, the characters.
split_text_with_regex(t, sp, sep) ==
    IF sep = <<>>
    THEN [k \in 1..SpanLen(sp) |-> <<sp[1] + k - 1, sp[1] + k>>]
    ELSE LET cuts == <<sp[1]>> \o Occurrences(t, sp[1], sp[2], sep) \o <<sp[2]>>
             pieces == [k \in 1..(Len(cuts) - 1) |-> <<cuts[k], cuts[k + 1]>>]
         IN  SelectSeq(pieces, LAMBDA x : SpanLen(x) > 0)

\* text.strip() of a slice, as a span
StripSpan(t, sp) ==
    LET inside == {j \in sp[1]..(sp[2] - 1) : t[j + 1] \notin Whitespace}
    IN  IF inside = {} THEN <<sp[1], sp[1]>>
        ELSE <<Min(inside), Max(inside) + 1>>

\* The mutant of join_docs: only the first piece is taken.
join_docs_first(t, current_doc) ==
    LET sp == StripSpan(t, current_doc[1])
    IN  IF SpanLen(sp) = 0 THEN <<>> ELSE <<sp>>

\* _join_docs(docs, ""): the pieces joined and stripped; None (here no chunk)
\* when nothing is left
join_docs(t, current_doc) ==
    LET sp == StripSpan(t, <<current_doc[1][1], current_doc[Len(current_doc)][2]>>)
    IN  IF SpanLen(sp) = 0 THEN <<>> ELSE <<sp>>

\* The mutants of MustDrop: one character more than chunk_overlap is kept;
\* what is kept is shorter than chunk_overlap.
MustDropKeepsMore(total, len, cs, co) ==
    total > co + 1 \/ (total + len > cs /\ total > 0)

MustDropKeepsLess(total, len, cs, co) ==
    (total >= co /\ total > 0) \/ (total + len > cs /\ total > 0)

\* The mutant of MustDrop for the claim of progress: nothing is ever dropped.
MustDropNever(total, len, cs, co) == FALSE

\* the condition of the while loop of _merge_splits
MustDrop(total, len, cs, co) ==
    total > co \/ (total + len > cs /\ total > 0)

\* the while loop of _merge_splits: pieces are dropped from the front of
\* current_doc until what is kept is at most chunk_overlap long and the next
\* piece fits
RECURSIVE DropFront(_, _, _, _, _)
DropFront(current_doc, total, len, cs, co) ==
    IF MustDrop(total, len, cs, co)
    THEN DropFront(Tail(current_doc), total - SpanLen(Head(current_doc)),
                   len, cs, co)
    ELSE [current_doc |-> current_doc, total |-> total]

\* The mutant of Overflows: the next piece is not counted.
OverflowsWithoutNext(total, len, cs) == total > cs

\* _merge_splits: whether the next piece no longer fits in the chunk
Overflows(total, len, cs) == total + len > cs

\* the for loop of _merge_splits from piece i on
RECURSIVE MergeFrom(_, _, _, _, _, _, _, _)
MergeFrom(t, splits, i, docs, current_doc, total, cs, co) ==
    IF i > Len(splits)
    THEN IF current_doc = <<>> THEN docs ELSE docs \o join_docs(t, current_doc)
    ELSE LET d == splits[i]
             len == SpanLen(d)
             full == Overflows(total, len, cs) /\ current_doc # <<>>
             kept == IF full THEN DropFront(current_doc, total, len, cs, co)
                     ELSE [current_doc |-> current_doc, total |-> total]
             out == IF full THEN docs \o join_docs(t, current_doc) ELSE docs
         IN  MergeFrom(t, splits, i + 1, out, Append(kept.current_doc, d),
                       kept.total + len, cs, co)

\* _merge_splits(splits, separator=""): the pieces packed into chunks of at
\* most chunk_size, each chunk starting with the tail of the one before
merge_splits(t, splits, cs, co) ==
    MergeFrom(t, splits, 1, <<>>, <<>>, 0, cs, co)

\* The mutant of FirstSeparator: the last such separator is taken.
LastSeparator(t, sp, seps) ==
    Max({i \in 1..Len(seps) :
            seps[i] = <<>> \/ Occurrences(t, sp[1], sp[2], seps[i]) # <<>>})

\* the first separator of seps that is "" or occurs in the slice: its index
FirstSeparator(t, sp, seps) ==
    Min({i \in 1..Len(seps) :
            seps[i] = <<>> \/ Occurrences(t, sp[1], sp[2], seps[i]) # <<>>})

\* _split_text(text, separators), and its loop over the pieces from piece i
\* on: a piece shorter than chunk_size is kept for merging; a longer one
\* flushes the kept pieces and is split again with the separators that are
\* left, or emitted as it is when none is left.
RECURSIVE split_text_rec(_, _, _, _, _)
RECURSIVE SplitFrom(_, _, _, _, _, _, _, _)
SplitFrom(t, splits, i, good_splits, final_chunks, new_separators, cs, co) ==
    IF i > Len(splits)
    THEN IF good_splits # <<>>
         THEN final_chunks \o merge_splits(t, good_splits, cs, co)
         ELSE final_chunks
    ELSE LET s == splits[i]
             flushed == IF good_splits # <<>>
                        THEN final_chunks \o merge_splits(t, good_splits, cs, co)
                        ELSE final_chunks
         IN  IF SpanLen(s) < cs
             THEN SplitFrom(t, splits, i + 1, Append(good_splits, s),
                            final_chunks, new_separators, cs, co)
             ELSE IF new_separators = <<>>
                  THEN SplitFrom(t, splits, i + 1, <<>>, Append(flushed, s),
                                 new_separators, cs, co)
                  ELSE SplitFrom(t, splits, i + 1, <<>>,
                                 flushed \o split_text_rec(t, s, new_separators, cs, co),
                                 new_separators, cs, co)

split_text_rec(t, sp, seps, cs, co) ==
    LET k == FirstSeparator(t, sp, seps)
        separator == seps[k]
        new_separators == IF separator = <<>> THEN <<>>
                          ELSE SubSeq(seps, k + 1, Len(seps))
        splits == split_text_with_regex(t, sp, separator)
    IN  SplitFrom(t, splits, 1, <<>>, <<>>, new_separators, cs, co)

\* text_splitter.split_text(text)
split_text(t, cs, co) == split_text_rec(t, <<0, Len(t)>>, separators, cs, co)

-----------------------------------------------------------------------------
(* The chunker as a state machine: a splitter is configured, handed a       *)
(* cleaned text, and splits it.                                             *)

Texts(n) == UNION {[1..m -> ChunkChars] : m \in 0..n}

\* the documented configuration and a text without any separator, in units
\* of Scale characters
ScenarioConfig == <<CHUNK_SIZE \div Scale, CHUNK_OVERLAP \div Scale>>

ScenarioText == [i \in 1..(ScenarioLen \div Scale) |-> "a"]

Configs ==
    {<<cs, co>> \in (1..MaxChunkSize) \X (0..MaxChunkSize) : co <= cs}
        \cup {ScenarioConfig}

\* RecursiveCharacterTextSplitter(...): the constructor refuses
\* chunk_size <= 0, chunk_overlap < 0 and chunk_overlap > chunk_size
Configure ==
    /\ cpc = "idle"
    /\ \E cfg \in Configs :
          /\ chunk_size' = cfg[1]
          /\ chunk_overlap' = cfg[2]
    /\ cpc' = "configured"
    /\ UNCHANGED <<doc_text, chunks>>
    /\ UNCHANGED notChunk

\* the text handed to the splitter is an output of clean_text: any short
\* text, or, under the documented configuration, the long text without
\* separators
TakeText ==
    /\ cpc = "configured"
    /\ \E t \in Texts(MaxTextLen) \cup
                 (IF <<chunk_size, chunk_overlap>> = ScenarioConfig
                  THEN {ScenarioText} ELSE {}) :
          /\ clean_text(t) = t
          /\ doc_text' = t
    /\ cpc' = "loaded"
    /\ UNCHANGED <<chunk_size, chunk_overlap, chunks>>
    /\ UNCHANGED notChunk

SplitText ==
    /\ cpc = "loaded"
    /\ chunks' = split_text(doc_text, chunk_size, chunk_overlap)
    /\ cpc' = "split"
    /\ UNCHANGED <<doc_text, chunk_size, chunk_overlap>>
    /\ UNCHANGED notChunk

ChunkNext == Configure \/ TakeText \/ SplitText

SpecChunk == Init /\ [][ChunkNext]_vars

-----------------------------------------------------------------------------
(* Claims about the chunker.  Offsets count from 0; chunk i is the slice     *)
(* doc_text[lo:hi] with <<lo, hi>> = chunks[i].                              *)

Covered == {o \in 0..(Len(doc_text) - 1) :
               \E i \in 1..Len(chunks) : chunks[i][1] <= o /\ o < chunks[i][2]}

\* how many characters chunk i and chunk i+1 share (negative: a gap)
Overlap(i) == chunks[i][2] - chunks[i + 1][1]

\* the text holds no whitespace and none of the separators but the empty one
NoSeparator(t) ==
    /\ \A j \in 1..Len(t) : t[j] \notin Whitespace
    /\ \A k \in 1..(Len(separators) - 1) :
          Occurrences(t, 0, Len(t), separators[k]) = <<>>

(* C2: every chunk that split_text emits is at most chunk_size characters   *)
(* long, for every text and every chunk_size and chunk_overlap.             *)
C2_SizeBound ==
    cpc = "split" =>
        \A i \in 1..Len(chunks) : SpanLen(chunks[i]) <= chunk_size

\* a text longer than chunk_size was split into several chunks, one of them
\* exactly chunk_size long and holding more than one piece
C2_Witness ==
    /\ cpc = "split"
    /\ chunk_size >= 3
    /\ Len(doc_text) > chunk_size
    /\ Len(chunks) >= 2
    /\ \E i \in 1..Len(chunks) : SpanLen(chunks[i]) = chunk_size
    /\ ~NoSeparator(doc_text)

(* C3 as claimed: every character of the text lies in at least one chunk.   *)
C3_EveryCharacterCovered ==
    cpc = "split" => Covered = 0..(Len(doc_text) - 1)

(* C3 as amended: every character of the text that is not whitespace lies   *)
(* in at least one chunk, and every chunk is a non-empty slice of the text; *)
(* whitespace at which a chunk is cut may be in no chunk.                   *)
C3_NonWhitespaceCovered ==
    cpc = "split" =>
        /\ \A o \in 0..(Len(doc_text) - 1) :
              doc_text[o + 1] \notin Whitespace => o \in Covered
        /\ \A i \in 1..Len(chunks) :
              /\ 0 <= chunks[i][1]
              /\ chunks[i][1] < chunks[i][2]
              /\ chunks[i][2] <= Len(doc_text)

\* a text was cut at a separator before chunk_size was reached, and the
\* separator's whitespace is in no chunk
C3_Witness ==
    /\ cpc = "split"
    /\ Len(chunks) >= 2
    /\ \E i \in 1..Len(chunks) : SpanLen(chunks[i]) < chunk_size
    /\ \E o \in 0..(Len(doc_text) - 1) :
          doc_text[o + 1] \in Whitespace /\ o \notin Covered

C5_StrideExact ==
    cpc = "split" =>
        \A i \in 1..(Len(chunks) - 1) :
            chunks[i + 1][1] = chunks[i][1] + (chunk_size - chunk_overlap)

(* C5 as amended: no chunk starts before the chunk before it; when the text *)
(* holds no whitespace and no separator and chunk_overlap is less than      *)
(* chunk_size, each chunk                                                   *)
(* after the first starts exactly chunk_size - chunk_overlap characters     *)
(* after the one before; in particular the documented configuration splits  *)
(* a 2500-character text without separators into exactly 3 chunks, the      *)
(* second and third one and two strides after the first (in units of Scale  *)
(* characters).                                                             *)
C5_StartsAdvance ==
    cpc = "split" =>
        /\ \A i \in 1..(Len(chunks) - 1) : chunks[i + 1][1] >= chunks[i][1]
        /\ (NoSeparator(doc_text) /\ chunk_overlap < chunk_size) =>
              \A i \in 1..(Len(chunks) - 1) :
                  chunks[i + 1][1] = chunks[i][1] + (chunk_size - chunk_overlap)
        /\ (doc_text = ScenarioText /\ <<chunk_size, chunk_overlap>> = ScenarioConfig) =>
              /\ Len(chunks) = 3
              /\ chunks[1][1] = 0
              /\ chunks[2][1] = chunk_size - chunk_overlap
              /\ chunks[3][1] = 2 * (chunk_size - chunk_overlap)

\* the documented scenario has been split
C5_Witness ==
    /\ cpc = "split"
    /\ doc_text = ScenarioText
    /\ <<chunk_size, chunk_overlap>> = ScenarioConfig
    /\ Len(chunks) = 3

SepAt(t, p) ==
    LET K == {k \in 1..(Len(separators) - 1) :
                 MatchAt(t, p, Len(t), separators[k])}
    IN  IF K = {} THEN 0 ELSE Min(K)

\* the offset of the first character at or after hi that is not whitespace
AfterBlank(t, hi) == RunEnd(t, hi + 1, Whitespace) - 1

\* what a chunk that ends at hi was cut at: 0 for the end of the text, the
\* priority of the separator it ends before (the whitespace stripped from
\* the end of the chunk may come first), Len(separators) for a hard cut
EndKind(t, hi) ==
    LET w == AfterBlank(t, hi)
        K == {SepAt(t, p) : p \in hi..Min({w, Len(t) - 1})} \ {0}
    IN  IF w = Len(t) THEN 0
        ELSE IF K = {} THEN Len(separators) ELSE Min(K)

\* the length of the stretch of t around the cut at hi that runs from the
\* separator before the cut (or the start) to the separator after it (or the
\* end)
Stretch(t, hi) ==
    LET a == Max({p \in 0..(hi - 1) : p = 0 \/ SepAt(t, p) # 0})
        b == Min({p \in hi..Len(t) : p = Len(t) \/ SepAt(t, p) # 0})
    IN  b - a

-----------------------------------------------------------------------------
(* Accuracy calculation.  "1" and "2" stand for digits, "A" for an uppercase *)
(* letter, "a" for a lowercase letter.                                       *)

FactChars == {"1", "2", "A", "a", " "}

Digit == {"1", "2"}

Letter == {"A", "a"}

\* str.lower()
lower(s) == [i \in 1..Len(s) |-> IF s[i] = "A" THEN "a" ELSE s[i]]

\* needle in hay
Contains(hay, needle) ==
    \E i \in 0..(Len(hay) - Len(needle)) :
        SubSeq(hay, i + 1, i + Len(needle)) = needle

InSeq(x, sq) == \E i \in 1..Len(sq) : sq[i] = x

\* extract_key_facts(ground_truth): the numbers (runs of digits) and the
\* capitalized words (runs of letters that start with an uppercase letter)
\* of the text, each once, in the order they first occur.
RECURSIVE FactsFrom(_, _, _)
FactsFrom(t, i, found) ==
    IF i > Len(t) THEN found
    ELSE IF t[i] \in Digit
         THEN LET e == RunEnd(t, i, Digit)
                  f == SubSeq(t, i, e - 1)
              IN  FactsFrom(t, e, IF InSeq(f, found) THEN found ELSE Append(found, f))
         ELSE IF t[i] \in Letter
              THEN LET e == RunEnd(t, i, Letter)
                       f == SubSeq(t, i, e - 1)
                   IN  FactsFrom(t, e, IF t[i] = "A" /\ ~InSeq(f, found)
                                       THEN Append(found, f) ELSE found)
              ELSE FactsFrom(t, i + 1, found)

extract_key_facts(t) == FactsFrom(t, 1, <<>>)

\* The mutants of IsMatch: the operands of `in` are swapped; the letter case
\* is not folded.
IsMatchSwapped(fact, answer) == Contains(lower(fact), lower(answer))

IsMatchCaseSensitive(fact, answer) == Contains(answer, fact)

\* fact.lower() in model_answer.lower()
IsMatch(fact, answer) == Contains(lower(answer), lower(fact))

\* the loop of calculate_accuracy from fact i on
RECURSIVE CountMatches(_, _, _, _)
CountMatches(gt_facts, answer, i, matches) ==
    IF i > Len(gt_facts) THEN matches
    ELSE CountMatches(gt_facts, answer, i + 1,
                      IF IsMatch(gt_facts[i], answer) THEN matches + 1 ELSE matches)

\* calculate_accuracy(model_answer, ground_truth).  The quotient
\* matches / len(gt_facts) is kept as the pair of its terms; a division by
\* zero raises ZeroDivisionError.
calculate_accuracy(answer, truth) ==
    LET gt_facts == extract_key_facts(truth)
        matches == CountMatches(gt_facts, answer, 1, 0)
    IN  IF Len(gt_facts) = 0
        THEN [kind |-> "ZeroDivisionError"]
        ELSE [kind |-> "score", matches |-> matches, total |-> Len(gt_facts)]

FactTexts(n) == UNION {[1..m -> FactChars] : m \in 0..n}

\* Load Fact Table: a question's expected answer
LoadFact ==
    /\ spc = "idle"
    /\ \E t \in FactTexts(MaxTruthLen) : ground_truth' = t
    /\ spc' = "loaded"
    /\ UNCHANGED <<model_answer, accuracy>>
    /\ UNCHANGED notScore

\* Query Models: a model's answer, any text
QueryModel ==
    /\ spc = "loaded"
    /\ \E t \in FactTexts(MaxAnswerLen) : model_answer' = t
    /\ spc' = "answered"
    /\ UNCHANGED <<ground_truth, accuracy>>
    /\ UNCHANGED notScore

\* Calculate Accuracy
CalculateAccuracy ==
    /\ spc = "answered"
    /\ accuracy' = calculate_accuracy(model_answer, ground_truth)
    /\ spc' = "scored"
    /\ UNCHANGED <<ground_truth, model_answer>>
    /\ UNCHANGED notScore

ScoreNext == LoadFact \/ QueryModel \/ CalculateAccuracy

SpecScore == Init /\ [][ScoreNext]_vars

-----------------------------------------------------------------------------
(* Claims about the scorer.  The score matches/total is in [0,1] when       *)
(* 0 <= matches <= total and total > 0; it is 1 when matches = total and 0  *)
(* when matches = 0.                                                        *)

Facts == {extract_key_facts(ground_truth)[i] :
             i \in 1..Len(extract_key_facts(ground_truth))}

(* C6: when the ground truth has at least one fact, the score is in [0,1];  *)
(* it is 1 when the answer contains every fact, and 0 when the answer       *)
(* contains no fact (in any letter case, the way the scorer compares).      *)
C6_ScoreBounds ==
    (spc = "scored" /\ Facts # {}) =>
        /\ accuracy.kind = "score"
        /\ accuracy.total > 0
        /\ 0 <= accuracy.matches
        /\ accuracy.matches <= accuracy.total
        /\ (\A f \in Facts : Contains(model_answer, f)) =>
              accuracy.matches = accuracy.total
        /\ (\A f \in Facts : ~Contains(lower(model_answer), lower(f))) =>
              accuracy.matches = 0

\* an answer holding both facts of a ground truth has been scored 1
C6_Witness ==
    /\ spc = "scored"
    /\ Cardinality(Facts) = 2
    /\ \A f \in Facts : Contains(model_answer, f)
    /\ accuracy.kind = "score"
    /\ accuracy.matches = 2
    /\ accuracy.total = 2

(* C7: the score is the number of distinct facts of the ground truth that   *)
(* occur in the answer, letter case ignored, divided by the number of       *)
(* distinct facts of the ground truth.                                      *)
C7_ScoreIsMatchedFraction ==
    (spc = "scored" /\ Facts # {}) =>
        /\ accuracy.kind = "score"
        /\ accuracy.total = Cardinality(Facts)
        /\ accuracy.matches =
              Cardinality({f \in Facts : Contains(lower(model_answer), lower(f))})

\* two numbers in the ground truth, only one of them in the answer: 1/2
C7_Witness ==
    /\ spc = "scored"
    /\ Facts = {<<"1">>, <<"2">>}
    /\ Contains(model_answer, <<"1">>)
    /\ ~Contains(model_answer, <<"2">>)
    /\ accuracy.kind = "score"
    /\ accuracy.matches = 1
    /\ accuracy.total = 2

(* C8: when the ground truth yields no fact, scoring yields a flagged       *)
(* "unscoreable" outcome: no score, and no division by zero.                *)
C8_NoFactsFlagged ==
    (spc = "scored" /\ Facts = {}) => accuracy.kind = "unscoreable"

-----------------------------------------------------------------------------
(* Context retrieval.  The vector store holds one embedding per chunk and   *)
(* its index is configured with "similarity": "cosine"; similarity_search   *)
(* returns the k records most similar to the question, the most similar     *)
(* first.  Embeddings are vectors of two integers of integer length, so     *)
(* that a cosine is a quotient of integers, kept as the pair of its terms.  *)

Embeddings == {<<1, 0>>, <<0, 2>>, <<3, 4>>, <<4, 3>>, <<-1, 0>>}

Dot(a, b) == a[1] * b[1] + a[2] * b[2]

Norm(a) == CHOOSE n \in 0..Dot(a, a) : n * n = Dot(a, a)

\* The mutant of cosine: the index compares by dot product.
dot_product(a, q) == <<Dot(a, q), 1>>

\* cosine similarity: the dot product divided by the product of the lengths
cosine(a, q) == <<Dot(a, q), Norm(a) * Norm(q)>>

\* x >= y for quotients with positive denominators
QuotientGeq(x, y) == x[1] * y[2] >= y[1] * x[2]

\* the record of S the most similar to q, the one stored first among equals
MostSimilar(idx, S, q) ==
    CHOOSE i \in S : \A j \in S :
        LET ci == cosine(idx[i], q)
            cj == cosine(idx[j], q)
        IN  IF QuotientGeq(ci, cj) /\ QuotientGeq(cj, ci) THEN i <= j
            ELSE QuotientGeq(ci, cj)

RECURSIVE Nearest(_, _, _, _)
Nearest(idx, S, q, n) ==
    IF n = 0 \/ S = {} THEN <<>>
    ELSE LET best == MostSimilar(idx, S, q)
         IN  <<best>> \o Nearest(idx, S \ {best}, q, n - 1)

\* vector_store.similarity_search(question, k=k)
similarity_search(idx, q, n) == Nearest(idx, 1..Len(idx), q, n)

\* the embeddings of a corpus of CorpusSize chunks
Corpus ==
    LET some == << <<3, 4>>, <<1, 0>>, <<-1, 0>>, <<4, 3>>, <<0, 2>> >>
    IN  [i \in 1..CorpusSize |-> some[(i % 5) + 1]]

\* doc.page_content: the text of the record whose embedding is e (the text
\* that the embedder maps to e)
page_content(e) ==
    IF e = <<1, 0>> THEN <<"a">>
    ELSE IF e = <<0, 2>> THEN <<"a", "\n", "\n", "a">>
    ELSE IF e = <<3, 4>> THEN <<"a", " ", "a">>
    ELSE IF e = <<4, 3>> THEN <<"a", ".">>
    ELSE <<"A">>

\* [doc.page_content for doc in docs]
PageContents(idx, docs) == [i \in 1..Len(docs) |-> page_content(idx[docs[i]])]

\* The mutant of paragraph_join: a text already in the context is left out.
RECURSIVE paragraph_join_unique(_)
paragraph_join_unique(pages) ==
    IF pages = <<>> THEN <<>>
    ELSE LET front == SubSeq(pages, 1, Len(pages) - 1)
             page == pages[Len(pages)]
         IN  IF \E i \in 1..Len(front) : front[i] = page
             THEN paragraph_join_unique(front)
             ELSE IF front = <<>> THEN page
             ELSE paragraph_join_unique(front) \o <<"\n", "\n">> \o page

\* "\n\n".join(pages)
RECURSIVE paragraph_join(_)
paragraph_join(pages) ==
    IF pages = <<>> THEN <<>>
    ELSE IF Len(pages) = 1 THEN pages[1]
    ELSE paragraph_join(SubSeq(pages, 1, Len(pages) - 1))
             \o <<"\n", "\n">> \o pages[Len(pages)]

\* The mutant of StoreRecord: the record takes the place of the last one.
StoreRecordOverwrites ==
    /\ rpc = "ingest"
    /\ index # <<>>
    /\ \E e \in Embeddings : index' = [index EXCEPT ![Len(index)] = e]
    /\ UNCHANGED <<rpc, question, top_k, retrieved, context>>
    /\ UNCHANGED notRetrieve

\* MongoDB Atlas Storage: one chunk's record is stored
StoreRecord ==
    /\ rpc = "ingest"
    /\ Len(index) < MaxIndexSize
    /\ \E e \in Embeddings : index' = Append(index, e)
    /\ UNCHANGED <<rpc, question, top_k, retrieved, context>>
    /\ UNCHANGED notRetrieve

\* embed_pdfs_to_mongo.py has stored a whole corpus
StoreCorpus ==
    /\ rpc = "ingest"
    /\ index = <<>>
    /\ index' = Corpus
    /\ UNCHANGED <<rpc, question, top_k, retrieved, context>>
    /\ UNCHANGED notRetrieve

\* retrieve_context(question, k)
RetrieveContext ==
    /\ rpc = "ingest"
    /\ \E q \in Embeddings : \E n \in (1..MaxK) \cup {DefaultK} :
          /\ question' = q
          /\ top_k' = n
          /\ retrieved' = similarity_search(index, q, n)
          /\ context' = paragraph_join(
                            PageContents(index, similarity_search(index, q, n)))
    /\ rpc' = "retrieved"
    /\ UNCHANGED index
    /\ UNCHANGED notRetrieve

RetrieveNext == StoreRecord \/ StoreCorpus \/ RetrieveContext

SpecRetrieve == Init /\ [][RetrieveNext]_vars

\* Retrieve Context: for each question, retrieve top-k similar chunks; the
\* questions after the first
RetrieveNextQuestion ==
    /\ rpc = "retrieved"
    /\ \E q \in Embeddings : \E n \in (1..MaxK) \cup {DefaultK} :
          /\ question' = q
          /\ top_k' = n
          /\ retrieved' = similarity_search(index, q, n)
          /\ context' = paragraph_join(
                            PageContents(index, similarity_search(index, q, n)))
    /\ UNCHANGED <<rpc, index>>
    /\ UNCHANGED notRetrieve

\* delete_all(): the corpus is to be ingested again, from an empty index
DeleteAll ==
    /\ index # <<>>
    /\ index' = <<>>
    /\ rpc' = "ingest"
    /\ question' = <<0, 0>>
    /\ top_k' = 0
    /\ retrieved' = <<>>
    /\ context' = <<>>
    /\ UNCHANGED notRetrieve

IndexNext ==
    StoreRecord \/ StoreCorpus \/ RetrieveContext \/ RetrieveNextQuestion
        \/ DeleteAll

\* the life of the index: ingestion, retrieval, ingestion again
SpecIndex == Init /\ [][IndexNext]_vars

-----------------------------------------------------------------------------
(* Claims about retrieval.  The cosines of two records a and b with the      *)
(* question q are compared without a division or a root: by the signs of     *)
(* the dot products and, when the signs agree, by the squares.               *)

MoreSimilarOrEqual(a, b, q) ==
    LET x == Dot(a, q)
        y == Dot(b, q)
    IN  IF x >= 0 /\ y >= 0 THEN x * x * Dot(b, b) >= y * y * Dot(a, a)
        ELSE IF x < 0 /\ y < 0 THEN x * x * Dot(b, b) <= y * y * Dot(a, a)
        ELSE x >= 0

RECURSIVE StartInContext(_)
StartInContext(i) ==
    IF i = 1 THEN 0
    ELSE StartInContext(i - 1)
             + Len(page_content(index[retrieved[i - 1]])) + 2

(* C18: the context is made of the texts of all the records the search      *)
(* returned, each once for each time it was returned, in the order they     *)
(* were returned, with a paragraph break between two texts and nothing      *)
(* else: none is dropped, moved or left out for being a duplicate.          *)
C18_ContextJoinsAll ==
    rpc = "retrieved" =>
        /\ Len(retrieved) = Min({top_k, Len(index)})
        /\ Len(context) = IF retrieved = <<>> THEN 0
                          ELSE StartInContext(Len(retrieved) + 1) - 2
        /\ \A i \in 1..Len(retrieved) :
              LET page == page_content(index[retrieved[i]])
                  at == StartInContext(i)
              IN  /\ SubSeq(context, at + 1, at + Len(page)) = page
                  /\ i > 1 => /\ context[at - 1] = "\n"
                              /\ context[at] = "\n"

\* two records with the same text were returned, and a third one after them
C18_Witness ==
    /\ rpc = "retrieved"
    /\ Len(retrieved) = 3
    /\ index[retrieved[1]] = index[retrieved[2]]
    /\ index[retrieved[3]] # index[retrieved[1]]
    /\ context = <<"a", " ", "a", "\n", "\n", "a", " ", "a", "\n", "\n", "a", ".">>

-----------------------------------------------------------------------------
(* The model dispatcher: generate(prompt, model_id) calls the model's        *)
(* provider; a transient error (timeout, rate limit, 5xx) is retried after a *)
(* backoff, up to the retry ceiling, and then the call fails as              *)
(* ProviderUnavailable; an authentication error is not retried.              *)

Models == {"gemini-2.5-flash", "gemini-2.5-pro", "llama-3.3-70b-versatile",
           "openai/gpt-oss-120b", "moonshotai/kimi-k2-instruct-0905"}

\* the largest retry ceiling the dispatcher is configured with
MaxRetryCeiling == 3

Transient == {"timeout", "rate_limit", "server_error"}

AnswerTexts == {"answer 1", "answer 2"}

\* what a provider call can come back with
ProviderOutcomes ==
    [kind : Transient \cup {"auth_error"}, text : {""}]
        \cup [kind : {"ok"}, text : AnswerTexts]

\* The mutant of MayRetry: the first call is not counted.
MayRetryOnceMore(n) == n - 1 <= retry_ceiling

\* whether, n calls having been issued, the ceiling allows another one
MayRetry(n) == n <= retry_ceiling

\* generate(prompt, model_id) is called
Dispatch ==
    /\ dpc = "idle"
    /\ \E m \in Models : model_id' = m
    /\ \E c \in 0..MaxRetryCeiling : retry_ceiling' = c
    /\ calls' = 0
    /\ outcomes' = <<>>
    /\ generated' = [kind |-> "none"]
    /\ dpc' = "calling"
    /\ UNCHANGED notDispatch

\* one call to the provider, and what the dispatcher does with its outcome
ProviderCall ==
    /\ dpc = "calling"
    /\ calls' = calls + 1
    /\ \E o \in ProviderOutcomes :
          /\ outcomes' = Append(outcomes, o)
          /\ IF o.kind = "ok"
             THEN /\ generated' = [kind |-> "text", text |-> o.text]
                  /\ dpc' = "done"
             ELSE IF o.kind = "auth_error"
             THEN /\ generated' = [kind |-> "ProviderAuthError"]
                  /\ dpc' = "done"
             ELSE IF MayRetry(calls + 1)
             THEN /\ generated' = generated
                  /\ dpc' = "backoff"
             ELSE /\ generated' = [kind |-> "ProviderUnavailable"]
                  /\ dpc' = "done"
    /\ UNCHANGED <<model_id, retry_ceiling>>
    /\ UNCHANGED notDispatch

\* the backoff before a retry is over
Backoff ==
    /\ dpc = "backoff"
    /\ dpc' = "calling"
    /\ UNCHANGED <<model_id, retry_ceiling, calls, outcomes, generated>>
    /\ UNCHANGED notDispatch

DispatchNext == Dispatch \/ ProviderCall \/ Backoff

SpecDispatch == Init /\ [][DispatchNext]_vars

-----------------------------------------------------------------------------
(* C10: one generate issues at most ceiling + 1 provider calls; every       *)
(* call but the last came back with a transient error (only those are       *)
(* retried); the text it returns is the text of the call that succeeded,    *)
(* which is the last one; and when three timeouts are followed by a         *)
(* success, generate has issued exactly 4 calls and returns that text.      *)
C10_BoundedRetry ==
    /\ calls <= retry_ceiling + 1
    /\ Len(outcomes) = calls
    /\ \A i \in 1..(Len(outcomes) - 1) : outcomes[i].kind \in Transient
    /\ (dpc = "done" /\ generated.kind = "text") =>
          /\ outcomes[calls].kind = "ok"
          /\ generated.text = outcomes[calls].text
    /\ (dpc = "done" /\ outcomes[calls].kind = "ok") => generated.kind = "text"
    /\ (/\ Len(outcomes) >= 4
        /\ \A i \in 1..3 : outcomes[i].kind = "timeout"
        /\ outcomes[4].kind = "ok") =>
          /\ calls = 4
          /\ dpc = "done"
          /\ generated = [kind |-> "text", text |-> outcomes[4].text]
    /\ (dpc = "done" /\ generated.kind = "ProviderUnavailable") =>
          /\ calls = retry_ceiling + 1
          /\ \A i \in 1..calls : outcomes[i].kind \in Transient

\* three timeouts, then a success: the fourth call's text is returned
C10_Witness ==
    /\ dpc = "done"
    /\ retry_ceiling = 3
    /\ calls = 4
    /\ \A i \in 1..3 : outcomes[i].kind = "timeout"
    /\ outcomes[4] = [kind |-> "ok", text |-> "answer 2"]
    /\ generated = [kind |-> "text", text |-> "answer 2"]

-----------------------------------------------------------------------------
(* The evaluation run: for each (question, model) pair the prompt is         *)
(* dispatched to the model and the response is scored; the pairs are taken   *)
(* question by question, the models in the order of the models table.  A     *)
(* dispatch that ends as ProviderUnavailable is recorded as a missing        *)
(* response with score 0; one that ends as ProviderAuthError ends the run    *)
(* for that provider only.                                                   *)

\* the models table, row by row
ModelTable ==
    << [id |-> "gemini-2.5-flash", provider |-> "Google"],
       [id |-> "gemini-2.5-pro", provider |-> "Google"],
       [id |-> "llama-3.3-70b-versatile", provider |-> "Groq"],
       [id |-> "openai/gpt-oss-120b", provider |-> "Groq"],
       [id |-> "moonshotai/kimi-k2-instruct-0905", provider |-> "Groq"] >>

\* the models of the run: the first rows of the table
num_models == Min({MaxModels, Len(ModelTable)})

\* the retry ceilings a run is configured with
RunCeilings == {0, 1}

\* the fact table's answer to every question of the run: one fact, "1"
FactAnswer(row) == <<"1">>

\* the provider of a model of the table
ProviderOf(model) ==
    (CHOOSE row \in {ModelTable[col] : col \in 1..Len(ModelTable)} :
        row.id = model).provider

\* the text of a model's answer, as characters
AnswerChars(reply) == IF reply = "answer 1" THEN <<"1">> ELSE <<"2">>

\* The mutant of NextPair: every second model is passed over.
NextPairSkipping(pair) ==
    IF pair[2] + 1 < num_models THEN <<pair[1], pair[2] + 2>>
    ELSE <<pair[1] + 1, 1>>

\* the pair after this one: the next model, then the next question
NextPair(pair) ==
    IF pair[2] < num_models THEN <<pair[1], pair[2] + 1>>
    ELSE <<pair[1] + 1, 1>>

\* The mutant of Truncated: no provider's contribution is ever cut.
TruncatedNever(provider) == FALSE

\* whether the run has ended for this provider
Truncated(provider) == provider \in aborted

\* the run moves to the pair after the cursor, or ends after the last pair
MoveOn ==
    /\ cursor' = NextPair(cursor)
    /\ epc' = IF NextPair(cursor)[1] > num_questions THEN "done" ELSE "running"

\* the dispatcher is ready for the next generate
ResetDispatcher ==
    /\ dpc' = "idle"
    /\ model_id' = ""
    /\ calls' = 0
    /\ outcomes' = <<>>
    /\ generated' = [kind |-> "none"]
    /\ UNCHANGED retry_ceiling

\* a run over the fact table starts
StartRun ==
    /\ epc = "idle"
    /\ \E n \in 1..MaxQuestions : num_questions' = n
    /\ \E c \in RunCeilings : retry_ceiling' = c
    /\ cursor' = <<1, 1>>
    /\ results' = <<>>
    /\ aborted' = {}
    /\ epc' = "running"
    /\ UNCHANGED <<dpc, model_id, calls, outcomes, generated>>
    /\ UNCHANGED notRun

\* the prompt of the pair at the cursor is dispatched to its model
DispatchPair ==
    /\ epc = "running"
    /\ dpc = "idle"
    /\ ~Truncated(ModelTable[cursor[2]].provider)
    /\ model_id' = ModelTable[cursor[2]].id
    /\ calls' = 0
    /\ outcomes' = <<>>
    /\ generated' = [kind |-> "none"]
    /\ dpc' = "calling"
    /\ UNCHANGED retry_ceiling
    /\ UNCHANGED evars
    /\ UNCHANGED notRun

\* the pair at the cursor belongs to a provider the run has ended for
SkipPair ==
    /\ epc = "running"
    /\ dpc = "idle"
    /\ Truncated(ModelTable[cursor[2]].provider)
    /\ MoveOn
    /\ UNCHANGED <<num_questions, results, aborted>>
    /\ UNCHANGED dvars
    /\ UNCHANGED notRun

\* generate has returned: the response is scored and recorded, or recorded
\* as missing, or the provider is given up
RecordResponse ==
    /\ epc = "running"
    /\ dpc = "done"
    /\ IF generated.kind = "text"
       THEN LET acc == calculate_accuracy(AnswerChars(generated.text),
                                          FactAnswer(cursor[1]))
            IN  /\ results' = Append(results,
                      [question |-> cursor[1], model |-> model_id,
                       kind |-> "answered",
                       matches |-> acc.matches, total |-> acc.total])
                /\ aborted' = aborted
       ELSE IF generated.kind = "ProviderUnavailable"
       THEN /\ results' = Append(results,
                      [question |-> cursor[1], model |-> model_id,
                       kind |-> "unavailable",
                       matches |-> 0, total |-> 1])
            /\ aborted' = aborted
       ELSE /\ results' = results
            /\ aborted' = aborted \cup {ModelTable[cursor[2]].provider}
    /\ MoveOn
    /\ ResetDispatcher
    /\ UNCHANGED num_questions
    /\ UNCHANGED notRun

RunNext ==
    StartRun \/ DispatchPair \/ ProviderCall \/ Backoff \/ SkipPair
        \/ RecordResponse

SpecRun == Init /\ [][RunNext]_vars

\* the run is a loop: a step that can be taken is taken
SpecRunFair == SpecRun /\ WF_vars(RunNext)

\* The mutant of ScoredRecords: a missing response is left out.
AnsweredRecords(model) ==
    SelectSeq(results, LAMBDA rec : rec.model = model /\ rec.kind = "answered")

\* the records that a model's statistics are computed over
ScoredRecords(model) == SelectSeq(results, LAMBDA rec : rec.model = model)

\* the sum of the scores of some records, as a quotient
RECURSIVE SumScores(_, _)
SumScores(recs, upto) ==
    IF upto = 0 THEN <<0, 1>>
    ELSE LET rest == SumScores(recs, upto - 1)
         IN  <<rest[1] * recs[upto].total + recs[upto].matches * rest[2],
               rest[2] * recs[upto].total>>

\* a model's summary statistics: the mean is sum / count
Aggregate(model) ==
    LET recs == ScoredRecords(model)
    IN  [count |-> Len(recs),
         sum |-> SumScores(recs, Len(recs)),
         unavailable |-> Len(SelectSeq(recs, LAMBDA rec : rec.kind = "unavailable")),
         perfect |-> Len(SelectSeq(recs,
                        LAMBDA rec : 10 * rec.matches >= 9 * rec.total))]

-----------------------------------------------------------------------------
(* Claims about the evaluation run. *)

\* the places in results of the records of one (question, model) pair
RecordsOf(row, col) ==
    {pos \in 1..Len(results) :
        /\ results[pos].question = row
        /\ results[pos].model = ModelTable[col].id}

\* the columns of the models whose provider the run has not ended for
Surviving == {col \in 1..num_models : ModelTable[col].provider \notin aborted}

(* C11: a dispatch that ended as ProviderUnavailable does not end the run:  *)
(* the step that follows it records the pair as a missing response with     *)
(* score 0, tagged unavailable, gives up no provider, and leaves the run    *)
(* running unless the pair was the last one; in a finished run the count    *)
(* that a model's mean is divided by takes in its missing responses, which  *)
(* are also counted apart.                                                  *)
C11_MissingResponseCounted ==
    /\ [](\A pos \in 1..Len(results) :
             results[pos].kind = "unavailable" => results[pos].matches = 0)
    /\ [](epc = "done" =>
             \A col \in Surviving :
                LET agg == Aggregate(ModelTable[col].id)
                    missing == {pos \in 1..Len(results) :
                                   /\ results[pos].model = ModelTable[col].id
                                   /\ results[pos].kind = "unavailable"}
                IN  /\ agg.count = num_questions
                    /\ agg.unavailable = Cardinality(missing)
                    /\ agg.sum[2] > 0
                    /\ agg.sum[1] <= (agg.count - agg.unavailable) * agg.sum[2])
    /\ [][(epc = "running" /\ dpc = "done"
              /\ generated.kind = "ProviderUnavailable") =>
             /\ results' = Append(results,
                    [question |-> cursor[1], model |-> model_id,
                     kind |-> "unavailable",
                     matches |-> 0, total |-> 1])
             /\ aborted' = aborted
             /\ epc' = IF cursor = <<num_questions, num_models>>
                       THEN "done" ELSE "running"]_vars

\* a finished run with one retry allowed, in which a missing response was
\* recorded (after two calls, then) and the pair after it was answered
C11_Witness ==
    /\ epc = "done"
    /\ aborted = {}
    /\ retry_ceiling = 1
    /\ \E pos \in 1..(Len(results) - 1) :
          /\ results[pos].kind = "unavailable"
          /\ results[pos + 1].kind = "answered"
          /\ results[pos + 1].matches = 1

(* C12: an authentication error is not retried (it is the last outcome of   *)
(* its dispatch); it ends the run for the provider of the model called and  *)
(* for no other; no provider call is made for a model of a provider the     *)
(* run has ended for; and the run finishes, with exactly one record for     *)
(* every pair of every other provider.                                      *)
C12_AuthErrorEndsProviderOnly ==
    /\ [](\A pos \in 1..Len(outcomes) :
             outcomes[pos].kind = "auth_error" =>
                /\ pos = Len(outcomes)
                /\ dpc = "done"
                /\ generated.kind = "ProviderAuthError")
    /\ [][calls' > calls => ProviderOf(model_id) \notin aborted]_vars
    /\ [][aborted' # aborted =>
             /\ generated.kind = "ProviderAuthError"
             /\ aborted' = aborted \cup {ProviderOf(model_id)}]_vars
    /\ [](epc = "done" =>
             \A row \in 1..num_questions : \A col \in Surviving :
                Cardinality(RecordsOf(row, col)) = 1)
    /\ <>(epc = "done")

\* the first model's provider failed with an authentication error, its
\* second model was passed over, and the other provider's model was answered
C12_Witness ==
    /\ epc = "done"
    /\ aborted = {"Google"}
    /\ Len(results) = num_questions
    /\ \A pos \in 1..Len(results) :
          /\ results[pos].model = "llama-3.3-70b-versatile"
          /\ results[pos].kind = "answered"

(* C13: no (question, model) pair ever has two records, retried or not;     *)
(* every record is of a pair of the run and holds one score; in a finished  *)
(* run every pair whose provider the run has not ended for has exactly one  *)
(* record, so that a run that ended for no provider has one for every pair. *)
C13_OneResponsePerPair ==
    /\ \A row \in 1..MaxQuestions : \A col \in 1..num_models :
          Cardinality(RecordsOf(row, col)) <= 1
    /\ \A pos \in 1..Len(results) :
          /\ results[pos].question \in 1..num_questions
          /\ \E col \in 1..num_models : results[pos].model = ModelTable[col].id
          /\ 0 <= results[pos].matches
          /\ results[pos].matches <= results[pos].total
          /\ results[pos].total > 0
    /\ epc = "done" =>
          /\ \A row \in 1..num_questions : \A col \in Surviving :
                Cardinality(RecordsOf(row, col)) = 1
          /\ aborted = {} => Len(results) = num_questions * num_models

\* a run with one retry allowed has finished for every provider; its first
\* dispatch used both calls, and the last pair was answered
C13_Witness ==
    /\ epc = "done"
    /\ aborted = {}
    /\ retry_ceiling = 1
    /\ Len(results) = num_questions * num_models
    /\ results[1].kind = "unavailable"
    /\ results[Len(results)].kind = "answered"

-----------------------------------------------------------------------------
(* extract_text_from_pdf, page by page: the reader holds the pages of the   *)
(* file, the loop asks each page for its text and appends it, followed by a *)
(* line break, when there is any.                                           *)

PageChars == {"a", "\n"}

\* page.extract_text(): a text, possibly the empty one, or None
PageTexts ==
    {[isNone |-> TRUE, chars |-> <<>>]} \cup
    {[isNone |-> FALSE, chars |-> c] :
        c \in UNION {[1..n -> PageChars] : n \in 0..MaxPageLen}}

\* PdfReader(filepath).pages
PdfFiles == UNION {[1..n -> PageTexts] : n \in 0..MaxPages}

HasTextAlways(page_text) == TRUE

\* if page_text: neither None nor the empty string
HasText(page_text) == ~page_text.isNone /\ page_text.chars # <<>>

\* reader = PdfReader(filepath); text = ""
OpenPdf ==
    /\ xpc = "closed"
    /\ \E f \in PdfFiles : reader_pages' = f
    /\ xpc' = "reading"
    /\ page_at' = 1
    /\ extracted' = <<>>
    /\ UNCHANGED notExtract

\* one turn of the loop over reader.pages
ExtractPage ==
    /\ xpc = "reading"
    /\ page_at <= Len(reader_pages)
    /\ LET page_text == reader_pages[page_at]
       IN  extracted' = IF HasText(page_text)
                        THEN extracted \o page_text.chars \o <<"\n">>
                        ELSE extracted
    /\ page_at' = page_at + 1
    /\ UNCHANGED <<xpc, reader_pages>>
    /\ UNCHANGED notExtract

\* return text
ReturnText ==
    /\ xpc = "reading"
    /\ page_at > Len(reader_pages)
    /\ xpc' = "returned"
    /\ UNCHANGED <<reader_pages, page_at, extracted>>
    /\ UNCHANGED notExtract

ExtractNext == OpenPdf \/ ExtractPage \/ ReturnText

SpecExtract == Init /\ [][ExtractNext]_vars

\* where in the result the text of page i starts, counted from 0: after the
\* texts, and their line breaks, of the pages before it that have a text
RECURSIVE StartInResult(_)
StartInResult(i) ==
    IF i <= 1 THEN 0
    ELSE LET before == reader_pages[i - 1].chars
         IN  StartInResult(i - 1) +
             (IF before # <<>> THEN Len(before) + 1 ELSE 0)

(* C19: extraction skips every page that yields no text and goes on: the    *)
(* result is the concatenation, in page order, of exactly the non-empty     *)
(* page texts, each followed by a line break, and the pages after an empty  *)
(* page are in it; the loop returns only after the last page.               *)
C19_NonEmptyPagesInOrder ==
    /\ Len(extracted) = StartInResult(page_at)
    /\ \A i \in 1..(page_at - 1) :
          LET chars == reader_pages[i].chars
              at == StartInResult(i)
          IN  chars # <<>> =>
                /\ SubSeq(extracted, at + 1, at + Len(chars)) = chars
                /\ extracted[at + Len(chars) + 1] = "\n"
    /\ xpc = "returned" => page_at = Len(reader_pages) + 1

\* a file of three pages was read to its end: the second page gave None, and
\* the text of the third stands in the result right after that of the first
C19_Witness ==
    /\ xpc = "returned"
    /\ Len(reader_pages) = 3
    /\ reader_pages[1] = [isNone |-> FALSE, chars |-> <<"a">>]
    /\ reader_pages[2].isNone
    /\ reader_pages[3] = [isNone |-> FALSE, chars |-> <<"a", "a">>]
    /\ extracted = <<"a", "\n", "a", "a", "\n">>

-----------------------------------------------------------------------------
(* The API service functions of the chat page (src/frontend, services/api). *)
(* Each awaits one fetch and is wrapped in try / catch.  A fetch comes to   *)
(* one of: the promise rejects (no connection), the response is not ok, the *)
(* body is not JSON that the function can read, or the body is the data.    *)
(* What a function gives its caller is [thrown, value]: thrown says that an *)
(* exception left the function.                                             *)

undefined == "undefined"

FetchFailures == {"rejected", "http_error", "bad_json"}

\* the fetches of one endpoint, from the data it can answer with; a fetch
\* that fails carries no data (the first of the data stands in its place)
Fetches(datas) ==
    {[how |-> h, data |-> CHOOSE d \in datas : TRUE] : h \in FetchFailures}
        \cup {[how |-> "ok", data |-> d] : d \in datas}

Returned(v) == [thrown |-> FALSE, value |-> v]

\* throw new Error(...), a rejected fetch, a rejected response.json()
Thrown(v) == [thrown |-> TRUE, value |-> v]

Rethrow(r, fallback) == r

\* catch (error) { console.error(...); return fallback; }
Catch(r, fallback) == IF r.thrown THEN Returned(fallback) ELSE r

\* POST /chat
ChatDatas == [answer : {undefined, "", "ok"}]

NoChatResponse == [isNull |-> TRUE, response |-> ""]

sendChatMessage(f) ==
    Catch(IF f.how # "ok" THEN Thrown(NoChatResponse)
          ELSE Returned([isNull |-> FALSE, response |-> f.data.answer]),
          NoChatResponse)

\* GET /chat/history/{sessionId}
ItemTexts == [user : {"u1", "u2"}, bot : {"b1", ""}]

HistoryDatas ==
    {[has_history |-> FALSE, history |-> <<>>]} \cup
    {[has_history |-> TRUE, history |-> h] :
        h \in UNION {[1..n -> ItemTexts] : n \in 0..MaxItems}}

ItemMessagesBotFirst(item, first_id) ==
    <<[id |-> first_id, origin |-> "ai", message |-> item.bot],
      [id |-> first_id + 1, origin |-> "human", message |-> item.user]>>

\* the two messages.push of one item
ItemMessages(item, first_id) ==
    <<[id |-> first_id, origin |-> "human", message |-> item.user],
      [id |-> first_id + 1, origin |-> "ai", message |-> item.bot]>>

\* for (const item of data.history || []) { ... }, from item i on
RECURSIVE PushItems(_, _, _)
PushItems(items, i, first_id) ==
    IF i > Len(items) THEN <<>>
    ELSE ItemMessages(items[i], first_id)
            \o PushItems(items, i + 1, first_id + 2)

loadConversationFromApi(f, first_id) ==
    Catch(IF f.how # "ok" THEN Thrown(<<>>)
          ELSE Returned(PushItems(IF f.data.has_history
                                  THEN f.data.history ELSE <<>>,
                                  1, first_id)),
          <<>>)

\* GET /chat/sessions
SessionsDatas ==
    {[has_sessions |-> FALSE, sessions |-> <<>>]} \cup
    {[has_sessions |-> TRUE, sessions |-> l] :
        l \in {<<>>, <<"s1">>, <<"s1", "s2">>}}

getAllSessions(f) ==
    Catch(IF f.how # "ok" THEN Thrown(<<>>)
          ELSE Returned(IF f.data.has_sessions
                        THEN f.data.sessions ELSE <<>>),
          <<>>)

\* DELETE /chat/session/{sessionId}
DeleteDatas == [has_success : BOOLEAN, success : BOOLEAN]

deleteSession(f) ==
    Catch(IF f.how # "ok" THEN Thrown(FALSE)
          ELSE Returned(f.data.has_success /\ f.data.success),
          FALSE)

\* POST /chat/session/create
CreateDatas == [success : BOOLEAN, session_id : {undefined, "s2"}]

createChatSession(f) ==
    Catch(IF f.how # "ok" THEN Thrown("null")
          ELSE Returned(IF f.data.success THEN f.data.session_id
                        ELSE "null"),
          "null")

CallSendChatMessage ==
    /\ \E f \in Fetches(ChatDatas) :
          /\ api_fetch' = f
          /\ api_return' = sendChatMessage(f)
    /\ api_call' = "sendChatMessage"
    /\ UNCHANGED notApi

CallLoadConversationFromApi ==
    /\ \E f \in Fetches(HistoryDatas) :
          /\ api_fetch' = f
          /\ api_return' = loadConversationFromApi(f, 1)
    /\ api_call' = "loadConversationFromApi"
    /\ UNCHANGED notApi

CallGetAllSessions ==
    /\ \E f \in Fetches(SessionsDatas) :
          /\ api_fetch' = f
          /\ api_return' = getAllSessions(f)
    /\ api_call' = "getAllSessions"
    /\ UNCHANGED notApi

CallDeleteSession ==
    /\ \E f \in Fetches(DeleteDatas) :
          /\ api_fetch' = f
          /\ api_return' = deleteSession(f)
    /\ api_call' = "deleteSession"
    /\ UNCHANGED notApi

CallCreateChatSession ==
    /\ \E f \in Fetches(CreateDatas) :
          /\ api_fetch' = f
          /\ api_return' = createChatSession(f)
    /\ api_call' = "createChatSession"
    /\ UNCHANGED notApi

ApiNext ==
    \/ CallSendChatMessage
    \/ CallLoadConversationFromApi
    \/ CallGetAllSessions
    \/ CallDeleteSession
    \/ CallCreateChatSession

SpecApi == Init /\ [][ApiNext]_vars

(* C22: loadConversationFromApi turns a history of n {user, bot} items into *)
(* exactly 2n messages in the order of the items, origin human then ai for  *)
(* each item: counted from 0, message 2i is the user text of item i and     *)
(* message 2i+1 its bot text; when the fetch fails it gives the empty list. *)
C22_TwoMessagesPerItem ==
    api_call = "loadConversationFromApi" =>
        LET items == api_fetch.data.history
            loaded == api_return.value
        IN  IF api_fetch.how = "ok" /\ api_fetch.data.has_history
            THEN /\ Len(loaded) = 2 * Len(items)
                 /\ \A i \in 1..Len(items) :
                       /\ loaded[2 * i - 1].origin = "human"
                       /\ loaded[2 * i - 1].message = items[i].user
                       /\ loaded[2 * i].origin = "ai"
                       /\ loaded[2 * i].message = items[i].bot
            ELSE loaded = <<>>

\* a history of three items, the first and the last with different user
\* texts, was turned into six messages
C22_Witness ==
    /\ api_call = "loadConversationFromApi"
    /\ api_fetch.how = "ok"
    /\ api_fetch.data.has_history
    /\ Len(api_fetch.data.history) = 3
    /\ api_fetch.data.history[1].user = "u1"
    /\ api_fetch.data.history[3].user = "u2"
    /\ Len(api_return.value) = 6
    /\ api_return.value[5].message = "u2"

(* C27: no API service function throws to its caller: when the fetch fails  *)
(* (no connection, a response that is not ok) sendChatMessage and           *)
(* createChatSession give null, loadConversationFromApi and getAllSessions  *)
(* the empty list, deleteSession false.                                     *)
C27_NoServiceFunctionThrows ==
    api_call # "none" =>
        /\ ~api_return.thrown
        /\ api_fetch.how # "ok" =>
              /\ api_call = "sendChatMessage" => api_return.value.isNull
              /\ api_call = "createChatSession" => api_return.value = "null"
              /\ api_call \in {"loadConversationFromApi", "getAllSessions"}
                    => api_return.value = <<>>
              /\ api_call = "deleteSession" => api_return.value = FALSE

\* deleteSession was called and the server answered with a status that is
\* not ok: false came back
C27_Witness ==
    /\ api_call = "deleteSession"
    /\ api_fetch.how = "http_error"
    /\ api_return = [thrown |-> FALSE, value |-> FALSE]

-----------------------------------------------------------------------------
(* The chat page's hook useChatSession (src/frontend): sendMessage,         *)
(* createNewSession, loadSessionHistory and removeSession are async         *)
(* handlers, each modelled as the step up to its await and the step after   *)
(* it; the render and the effects that follow state set after an await are  *)
(* one step.  A handler called from an event of the page is followed by its *)
(* render at once, so the next event finds what it set.  At most one of     *)
(* createNewSession, loadSessionHistory and removeSession is in flight.     *)
(* The list of sessions, which loadAllSessions refreshes, and what App      *)
(* shows of an error are not part of the state modelled.                    *)

\* the stored session, and the ids the server gives to new sessions
SessionNames == <<"s1", "s2", "s3", "s4", "s5">>

FreshSessionId == SessionNames[sessions_made + 2]

\* what the user submits: a message, or blanks only
UserInputs == {"hi", " "}

\* !message.trim()
Blank(message) == message \in {"", " "}

\* what sendChatMessage resolves to: null (HTTP error or no connection), or
\* {response: data.answer} where the answer may be missing or empty
ChatResults == {sendChatMessage(f) : f \in Fetches(ChatDatas)}

\* result && result.response
HasResponse(result) ==
    ~result.isNull /\ result.response \notin {undefined, ""}

\* a message is sent, and stored messages are loaded, while ids are left;
\* the answer to a request in flight always gets its id
IdsLeft == next_id <= MaxIds

\* what loadConversationFromApi resolves to, with whether the fetch failed:
\* the history stored for a session is empty or holds one exchange
ServerHistories ==
    {[failed |-> f.how # "ok",
      loaded |-> loadConversationFromApi(f, next_id)] :
        f \in Fetches({[has_history |-> TRUE, history |-> h] :
                 h \in {<<>>} \cup
                       (IF IdsLeft
                        THEN {<<[user |-> "u1", bot |-> "b1"]>>}
                        ELSE {})})}

RefusedIfBlank(message) == Blank(message)

\* if (!message.trim() || isSending) return;
Refused(message) == Blank(message) \/ isSendingSeen

\* sendMessage, up to await sendChatMessage(...)
SendMessage ==
    /\ \E message \in UserInputs :
          IF Refused(message)
          THEN /\ last_call' = IF Blank(message) THEN "refused_blank"
                               ELSE "refused_sending"
               /\ UNCHANGED <<hpc, isSending, isSendingSeen, error, history,
                              historyRef, sent, sent_to, next_id, in_flight>>
          ELSE /\ IdsLeft
               /\ LET userMessage == [id |-> next_id, origin |-> "human",
                                      message |-> message]
                      newHistoryWithUser == Append(historyRef, userMessage)
                  IN  /\ isSending' = TRUE
                      /\ isSendingSeen' = TRUE
                      /\ error' = null
                      /\ history' = newHistoryWithUser
                      /\ historyRef' = newHistoryWithUser
                      /\ sent' = userMessage
               /\ sent_to' = sessionIdRef
               /\ next_id' = next_id + 1
               /\ in_flight' = in_flight + 1
               /\ hpc' = "awaiting"
               /\ last_call' = "sent"
    /\ UNCHANGED <<lpc, load_id, sessionId, sessionIdRef, isLoading, load_failed, rm_id, rm_current, removed, sessions_made>>
    /\ UNCHANGED notChat

\* [...historyRef.current, aiMessage]
AppendToHistoryRef(result) ==
    Append(historyRef, [id |-> next_id, origin |-> "ai",
                        message |-> result.response])

IsSendingUnlessAnswered(r) == r.thrown \/ ~HasResponse(r.value)

\* finally { setIsSending(false); }
FinallyIsSending(r) == FALSE

\* sendMessage, from the result of sendChatMessage to its end
ChatResponse ==
    /\ hpc = "awaiting"
    /\ \E r \in ChatResults :
          /\ IF r.thrown
             THEN /\ error' = "Failed to send message"
                  /\ UNCHANGED <<history, historyRef, next_id>>
             ELSE IF HasResponse(r.value)
             THEN /\ history' = AppendToHistoryRef(r.value)
                  /\ historyRef' = AppendToHistoryRef(r.value)
                  /\ next_id' = next_id + 1
                  /\ UNCHANGED error
             ELSE /\ error' = "Failed to get response from server"
                  /\ UNCHANGED <<history, historyRef, next_id>>
          /\ isSending' = FinallyIsSending(r)
    /\ in_flight' = in_flight - 1
    /\ hpc' = IF in_flight = 1 THEN "idle" ELSE "awaiting"
    /\ sent' = IF in_flight = 1 THEN NoMessage ELSE sent
    /\ sent_to' = IF in_flight = 1 THEN null ELSE sent_to
    /\ UNCHANGED <<lpc, load_id, sessionId, sessionIdRef, isLoading,
                   isSendingSeen, last_call, load_failed,
                   rm_id, rm_current, removed, sessions_made>>
    /\ UNCHANGED notChat

\* createNewSession, up to await createChatSession()
BeginCreateNewSession ==
    /\ isLoading' = TRUE
    /\ error' = null
    /\ lpc' = "creating"

CreateNewSession ==
    /\ lpc = "idle"
    /\ sessions_made < MaxNewSessions
    /\ BeginCreateNewSession
    /\ UNCHANGED <<hpc, load_id, sessionId, sessionIdRef, history,
                   historyRef, isSending, sent, next_id, in_flight,
                   sent_to, isSendingSeen, last_call, load_failed, rm_id,
                   rm_current, removed, sessions_made>>
    /\ UNCHANGED notChat

\* what createChatSession resolves to: null, or the id of a new session
CreateResults ==
    {createChatSession(f) :
        f \in Fetches([success : BOOLEAN,
                       session_id : {undefined, FreshSessionId}])}

\* removeSession: await createNewSession(); return true;
ReturnsAfterCreate(created) == "true"

\* createNewSession, from the result of createChatSession to its end; when
\* removeSession called it, removeSession returns after it
SessionCreated ==
    /\ lpc = "creating"
    /\ \E r \in CreateResults :
          LET newSessionId == r.value
              created == ~r.thrown /\ newSessionId \notin {null, undefined}
          IN  /\ IF created
                 THEN /\ sessionId' = newSessionId
                      /\ history' = <<>>
                      /\ sessions_made' = sessions_made + 1
                      /\ UNCHANGED error
                 ELSE /\ error' = "Failed to create new session"
                      /\ UNCHANGED <<sessionId, history, sessions_made>>
              /\ removed' = IF removed = "pending"
                            THEN ReturnsAfterCreate(created) ELSE removed
    /\ rm_id' = null
    /\ rm_current' = FALSE
    /\ isLoading' = FALSE
    /\ lpc' = "idle"
    /\ UNCHANGED <<hpc, load_id, sessionIdRef, historyRef, isSending, sent, next_id, in_flight, sent_to, isSendingSeen,
                   last_call, load_failed>>
    /\ UNCHANGED notChat

\* loadSessionHistory(id), up to await loadConversationFromApi(id, limit):
\* called on mount with the current session, and by loadSession
LoadSessionHistory ==
    /\ lpc = "idle"
    /\ \E id \in {sessionId, SessionNames[1]} : load_id' = id
    /\ isLoading' = TRUE
    /\ error' = null
    /\ lpc' = "loading"
    /\ UNCHANGED <<hpc, sessionId, sessionIdRef, history, historyRef,
                   isSending, sent, next_id, in_flight, sent_to,
                   isSendingSeen, last_call, load_failed, rm_id, rm_current,
                   removed, sessions_made>>
    /\ UNCHANGED notChat

\* loadSessionHistory, from the messages loaded to its end
HistoryLoaded ==
    /\ lpc = "loading"
    /\ \E got \in ServerHistories :
          /\ load_failed' = got.failed
          /\ IF got.loaded.thrown
             THEN /\ error' = "Failed to load conversation history"
                  /\ UNCHANGED <<history, sessionId, next_id>>
             ELSE /\ history' = got.loaded.value
                  /\ sessionId' = load_id
                  /\ next_id' = next_id + Len(got.loaded.value)
                  /\ UNCHANGED error
    /\ isLoading' = FALSE
    /\ lpc' = "idle"
    /\ load_id' = null
    /\ UNCHANGED <<hpc, sessionIdRef, historyRef, isSending, sent, in_flight, sent_to, isSendingSeen, last_call, rm_id,
                   rm_current, removed, sessions_made>>
    /\ UNCHANGED notChat

\* removeSession(id), up to await deleteSession(id); sessionId in its
\* closure is that of the latest render
RemoveSession ==
    /\ lpc = "idle"
    /\ sessions_made < MaxNewSessions
    /\ \E id \in {sessionIdRef, SessionNames[1]} :
          /\ rm_id' = id
          /\ rm_current' = (id = sessionIdRef)
    /\ removed' = "pending"
    /\ lpc' = "deleting"
    /\ UNCHANGED <<hpc, load_id, sessionId, sessionIdRef, history,
                   historyRef, isSending, isLoading, error, sent,
                   next_id, in_flight, sent_to, isSendingSeen, last_call,
                   load_failed, sessions_made>>
    /\ UNCHANGED notChat

\* removeSession, from the result of deleteSession to its return, or to the
\* await in the createNewSession it calls
SessionDeleted ==
    /\ lpc = "deleting"
    /\ \E f \in Fetches(DeleteDatas) :
          LET r == deleteSession(f)
          IN  IF r.thrown \/ ~r.value
              THEN /\ removed' = "false"
                   /\ lpc' = "idle"
                   /\ rm_id' = null
                   /\ rm_current' = FALSE
                   /\ UNCHANGED <<isLoading, error>>
              ELSE IF rm_current
              THEN /\ BeginCreateNewSession
                   /\ UNCHANGED <<removed, rm_id, rm_current>>
              ELSE /\ removed' = "true"
                   /\ lpc' = "idle"
                   /\ rm_id' = null
                   /\ rm_current' = FALSE
                   /\ UNCHANGED <<isLoading, error>>
    /\ UNCHANGED <<hpc, load_id, sessionId, sessionIdRef, history,
                   historyRef, isSending, sent, next_id, in_flight,
                   sent_to, isSendingSeen, last_call, load_failed,
                   sessions_made>>
    /\ UNCHANGED notChat

\* the render and the effects after state was set past an await: the
\* closures and the two refs follow the state, and App, having shown the
\* error, clears it (setError(null))
RunEffects ==
    /\ \/ sessionIdRef # sessionId
       \/ historyRef # history
       \/ isSendingSeen # isSending
       \/ error # null
    /\ sessionIdRef' = sessionId
    /\ historyRef' = history
    /\ isSendingSeen' = isSending
    /\ error' = null
    /\ UNCHANGED <<hpc, lpc, load_id, sessionId, history, isSending,
                   isLoading, sent, next_id, in_flight, sent_to, last_call,
                   load_failed, rm_id, rm_current, removed, sessions_made>>
    /\ UNCHANGED notChat

ChatNext ==
    \/ SendMessage \/ ChatResponse
    \/ CreateNewSession \/ SessionCreated
    \/ LoadSessionHistory \/ HistoryLoaded
    \/ RemoveSession \/ SessionDeleted
    \/ RunEffects

SpecChat == Init /\ [][ChatNext]_vars

\* a fetch, once issued, settles: the handler that awaits it goes on
SpecChatFair ==
    /\ SpecChat
    /\ WF_vars(ChatResponse)
    /\ WF_vars(SessionCreated)
    /\ WF_vars(HistoryLoaded)
    /\ WF_vars(SessionDeleted)

InHistory(message) ==
    \E i \in 1..Len(history) : history[i] = message

(* C20: sendMessage appends the user's message to history before the        *)
(* request is issued; when the request succeeds the AI message is appended  *)
(* after the user's message; when it fails or gives no response the error   *)
(* is set, no AI message is appended and the user's message stays in        *)
(* history.                                                                 *)
C20_SendMessageKeepsUserMessage ==
    /\ [][(hpc = "idle" /\ hpc' = "awaiting") =>
            /\ history' # <<>>
            /\ history'[Len(history')] = sent'
            /\ sent'.origin = "human"]_vars
    /\ [][(hpc = "awaiting" /\ hpc' = "idle") =>
            IF error' = "Failed to get response from server"
            THEN /\ history' = history
                 /\ InHistory(sent)
            ELSE /\ Len(history') >= 2
                 /\ history'[Len(history')].origin = "ai"
                 /\ history'[Len(history') - 1] = sent]_vars

(* C21: when removeSession(id) returns true and id was the current session, *)
(* a new session has been created: the current sessionId differs from id    *)
(* and history is empty.                                                    *)
C21_RemovedCurrentIsReplaced ==
    [][(removed = "pending" /\ removed' = "true" /\ rm_current) =>
          /\ sessionId' # rm_id
          /\ history' = <<>>]_vars

(* C23: an AI response is appended only to the history of the session the   *)
(* message was sent to: when loadSession or createNewSession has changed    *)
(* the current session while the send was in flight, the late response is   *)
(* not added to the history shown.                                          *)
C23_LateResponseNotAdded ==
    [][(hpc = "awaiting" /\ in_flight' < in_flight /\ sessionId # sent_to) =>
          history' = history]_vars

(* C24: at most one chat request is in flight: a sendMessage call made      *)
(* while a previous send has not finished appends nothing to history and    *)
(* issues no request, and a message that is empty or blanks only never      *)
(* issues a request.                                                        *)
C24_OneRequestInFlight ==
    /\ [](in_flight <= 1)
    /\ [][in_flight > 0 => in_flight' <= in_flight]_vars
    /\ [][(last_call' # last_call /\ last_call' # "sent") =>
            UNCHANGED <<history, historyRef, in_flight, sent>>]_vars
    /\ [][in_flight' > in_flight => ~Blank(sent'.message)]_vars

\* a message was sent and, before its answer came, sendMessage was called
\* again with a message that is not blank: nothing was added to history
C24_Witness ==
    /\ in_flight = 1
    /\ last_call = "refused_sending"
    /\ Len(history) = 1
    /\ history[1] = sent

(* C25: every sendMessage that set isSending to true sets it back to false, *)
(* whether the request succeeds, gives no response or throws, and           *)
(* loadSessionHistory and createNewSession always set isLoading back to     *)
(* false.                                                                   *)
C25_FlagsAreReset ==
    /\ isSending ~> ~isSending
    /\ isLoading ~> ~isLoading

\* a request came back without a response and isSending is false again
C25_Witness ==
    /\ last_call = "sent"
    /\ error = "Failed to get response from server"
    /\ ~isSending
    /\ ~isLoading
    /\ hpc = "idle"

(* C26: when loading the history of a session fails (no connection, or a    *)
(* status that is not ok), the error 'Failed to load conversation history'  *)
(* is set and the current sessionId and history are left as they were.      *)
C26_FailedLoadKeepsSession ==
    [][(lpc = "loading" /\ lpc' = "idle" /\ load_failed') =>
          /\ error' = "Failed to load conversation history"
          /\ sessionId' = sessionId
          /\ history' = history]_vars

=============================================================================
